---- MODULE Spec2Model ----
(***************************************************************************)
(* Model of desktop/desktopentry/desktopentry.go: the line-oriented        *)
(* parser of .desktop files (Load, parse) and the autostart decision       *)
(* (ShouldAutostart).                                                      *)
(*                                                                         *)
(* A Go string is modelled as the sequence of its characters, so that      *)
(* trimming, prefix tests, splitting on "=" and on ";" are computed the    *)
(* way the code computes them.  A nil-able slice or pointer is modelled    *)
(* by a record with a nil flag, or by a sequence of length 0 (nil) or 1.   *)
(***************************************************************************)
EXTENDS Integers, Sequences, FiniteSets, TLC

\* ---------------------------------------------------------------------
\* Bounds of the model
\* ---------------------------------------------------------------------

\* Number of lines the scanner delivers in one parse; each specification
\* draws them from a set of lines of its own.
MaxLines ==
    4

\* Number of lines the scanner delivers in a parse of KeyLines.
MaxKeyLines ==
    5

\* Number of lines the scanner delivers in a parse of GroupLines.
MaxGroupLines ==
    6

\* Length of the value splitStringList is applied to on its own.
MaxValueLen ==
    4

\* Length of the uris list of ExpandExec and ExpandActionExec.
MaxUris ==
    1

\* Length of the partial last token the scanner delivers after a read error.
MaxCut ==
    2

\* Length of the currentDesktop list and of the OnlyShowIn/NotShownIn lists
\* of the entries ShouldAutostart is applied to directly.
MaxDesktops ==
    2

\* ---------------------------------------------------------------------
\* String literals of the source
\* ---------------------------------------------------------------------

LitDesktopEntry ==
    <<"[","D","e","s","k","t","o","p"," ","E","n","t","r","y","]">>
LitDesktopActionPrefix ==
    <<"[","D","e","s","k","t","o","p"," ","A","c","t","i","o","n"," ">>
LitCloseBracket ==
    <<"]">>
LitTrue ==
    <<"t","r","u","e">>
LitGNOME ==
    <<"G","N","O","M","E">>
KeyName ==
    <<"N","a","m","e">>
KeyIcon ==
    <<"I","c","o","n">>
KeyExec ==
    <<"E","x","e","c">>
KeyHidden ==
    <<"H","i","d","d","e","n">>
KeyOnlyShowIn ==
    <<"O","n","l","y","S","h","o","w","I","n">>
KeyNotShownIn ==
    <<"N","o","t","S","h","o","w","n","I","n">>
KeyGnomeAutostart ==
    <<"X","-","G","N","O","M","E","-","A","u","t","o","s","t","a","r","t","-","e","n","a","b","l","e","d">>
KeyActions ==
    <<"A","c","t","i","o","n","s">>

\* The filename handed to Load / parse (used in diagnostics only).
TheFilename ==
    "app.desktop"

\* ---------------------------------------------------------------------
\* The lines a stream may deliver
\* ---------------------------------------------------------------------

LnEntry ==
    <<"[","D","e","s","k","t","o","p"," ","E","n","t","r","y","]">>
LnEntryPadded ==
    <<" ","[","D","e","s","k","t","o","p"," ","E","n","t","r","y","]","\t">>
LnActionA ==
    <<"[","D","e","s","k","t","o","p"," ","A","c","t","i","o","n"," ","a","]">>
LnActionB ==
    <<"[","D","e","s","k","t","o","p"," ","A","c","t","i","o","n"," ","b","]">>
LnOtherGroup ==
    <<"[","O","t","h","e","r","]">>
LnActionsAB ==
    <<"A","c","t","i","o","n","s","=","a",";","b">>
LnActionsB ==
    <<"A","c","t","i","o","n","s","=",";","b",";">>
LnName ==
    <<"N","a","m","e","=","n">>
LnExec ==
    <<"E","x","e","c"," ","="," ","e","=","f">>
LnGnomeFalse ==
    <<"X","-","G","N","O","M","E","-","A","u","t","o","s","t","a","r","t","-","e","n","a","b","l","e","d","=","f","a","l","s","e">>
LnGnomeTrue ==
    <<"X","-","G","N","O","M","E","-","A","u","t","o","s","t","a","r","t","-","e","n","a","b","l","e","d"," ","="," ","t","r","u","e">>
LnBad ==
    <<"b","a","d">>
LnComment ==
    <<"#"," ","c">>

LnOnlyShowIn ==
    <<"O","n","l","y","S","h","o","w","I","n","=","G","N","O","M","E",";",";","K","D","E",";">>
LnOnlyShowInEmpty ==
    <<"O","n","l","y","S","h","o","w","I","n","=",";">>
LnNotShownIn ==
    <<"N","o","t","S","h","o","w","n","I","n","=","G","N","O","M","E">>

LnHidden ==
    <<"H","i","d","d","e","n","=","t","r","u","e">>

LnName2 ==
    <<"N","a","m","e","=","m">>
LnIcon ==
    <<" ","I","c","o","n","=","i","\t">>

\* The lines of the parses that exercise the group structure.
Lines ==
    { LnEntry, LnEntryPadded, LnActionA, LnActionB, LnOtherGroup,
      LnActionsAB, LnActionsB, LnName, LnExec, LnBad, LnComment }

\* The lines of the parses that exercise X-GNOME-Autostart-enabled.
GnomeLines ==
    { LnEntry, LnActionA, LnOtherGroup, LnActionsAB,
      LnGnomeFalse, LnGnomeTrue, LnComment }

\* The lines of the parses that exercise OnlyShowIn.
ShowLines ==
    { LnEntry, LnOtherGroup, LnOnlyShowIn, LnOnlyShowInEmpty, LnNotShownIn }

\* The lines of the parses that exercise the keys of the entry and of an
\* action.
KeyLines ==
    { LnEntry, LnActionsAB, LnActionA, LnName, LnName2, LnIcon, LnExec }

\* The lines of the parses that go through two action groups.
GroupLines ==
    { LnEntry, LnActionsAB, LnActionA, LnActionB, LnOtherGroup, LnName, LnName2 }

\* The lines of the parses that read keys outside [Desktop Entry] and the
\* action groups.
UnknownLines ==
    { LnEntry, LnActionA, LnOtherGroup, LnName, LnHidden, LnActionsAB,
      LnGnomeFalse, LnOnlyShowIn, LnBad, LnComment }

\* The lines of the parses whose entry ExpandExec and ExpandActionExec are
\* called on.
ExecLines ==
    { LnEntry, LnActionsAB, LnActionA, LnExec, LnName }

\* The lines in the middle of which the read may fail.
CutLines ==
    { LnEntryPadded, LnName, LnComment }

Min(a, b) ==
    IF a < b THEN a ELSE b

\* What is left in the scanner's buffer when the read fails in the middle of
\* a line: a non-empty prefix of that line.
PartialTokens ==
    { SubSeq(l, 1, Min(k, Len(l))) : l \in CutLines, k \in 1..MaxCut }

NameA ==
    <<"a">>
NameB ==
    <<"b">>
\* An action identifier that no line declares.
NameC ==
    <<"c">>
UriA ==
    <<"f","i","l","e",":","/","/","/","a">>
DeskKDE ==
    <<"K","D","E">>
DeskXFCE ==
    <<"X","F","C","E">>

\* ---------------------------------------------------------------------
\* String functions (package strings, strutil)
\* ---------------------------------------------------------------------

\* The white space characters of the model.  strings.TrimSpace removes
\* Unicode white space; the cutset of TrimRight/TrimLeft is "\t\n\v\f\r ".
\* Both contain every character of this set.
WhiteSpace ==
    {" ", "\t", "\n", "\r", "\f"}

RECURSIVE TrimLeft(_, _)
TrimLeft(s, cutset) ==
    IF s = <<>> THEN s
    ELSE IF Head(s) \in cutset THEN TrimLeft(Tail(s), cutset)
    ELSE s

RECURSIVE TrimRight(_, _)
TrimRight(s, cutset) ==
    IF s = <<>> THEN s
    ELSE IF s[Len(s)] \in cutset THEN TrimRight(SubSeq(s, 1, Len(s) - 1), cutset)
    ELSE s

TrimSpace(s) ==
    TrimRight(TrimLeft(s, WhiteSpace), WhiteSpace)

HasPrefix(s, prefix) ==
    /\ Len(s) >= Len(prefix)
    /\ SubSeq(s, 1, Len(prefix)) = prefix

HasSuffix(s, suffix) ==
    /\ Len(s) >= Len(suffix)
    /\ SubSeq(s, Len(s) - Len(suffix) + 1, Len(s)) = suffix

\* Index of the first occurrence of character c in s, 0 if there is none.
RECURSIVE IndexFrom(_, _, _)
IndexFrom(s, c, i) ==
    IF i > Len(s) THEN 0
    ELSE IF s[i] = c THEN i
    ELSE IndexFrom(s, c, i + 1)

\* SplitN2, were it to split at the last occurrence of the separator.
SplitN2_AtLastSeparator(s, sep) ==
    LET is == { i \in 1..Len(s) : s[i] = sep }
        i  == CHOOSE x \in is : \A y \in is : y <= x
    IN  IF is = {} THEN <<s>>
        ELSE <<SubSeq(s, 1, i - 1), SubSeq(s, i + 1, Len(s))>>

\* strings.SplitN(s, sep, 2) for a one-character separator: one piece when
\* sep does not occur, otherwise the text before and after its first
\* occurrence.
SplitN2(s, sep) ==
    LET i == IndexFrom(s, sep, 1)
    IN  IF i = 0 THEN <<s>>
        ELSE <<SubSeq(s, 1, i - 1), SubSeq(s, i + 1, Len(s))>>

\* strings.FieldsFunc(value, r == ';'): the maximal runs of characters other
\* than ";".  fields are the runs completed so far, cur the run being read.
RECURSIVE FieldsFrom(_, _, _, _)
FieldsFrom(value, i, fields, cur) ==
    IF i > Len(value)
    THEN IF cur = <<>> THEN fields ELSE Append(fields, cur)
    ELSE IF value[i] = ";"
         THEN FieldsFrom(value, i + 1,
                         IF cur = <<>> THEN fields ELSE Append(fields, cur),
                         <<>>)
         ELSE FieldsFrom(value, i + 1, fields, Append(cur, value[i]))

\* splitStringList, were a closing ";" to end one more (empty) field, as
\* with strings.Split.
splitStringList_EmptyLastField(value) ==
    IF value # <<>> /\ value[Len(value)] = ";"
    THEN Append(FieldsFrom(value, 1, <<>>, <<>>), <<>>)
    ELSE FieldsFrom(value, 1, <<>>, <<>>)

splitStringList(value) ==
    FieldsFrom(value, 1, <<>>, <<>>)

\* strutil.ListContains
ListContains(list, str) ==
    \E i \in 1..Len(list) : list[i] = str

\* ---------------------------------------------------------------------
\* Data model
\* ---------------------------------------------------------------------

\* A []string: nil, or a (possibly empty) list.
NilList ==
    [nil |-> TRUE, elems |-> <<>>]

MkList(elems) ==
    [nil |-> FALSE, elems |-> elems]

\* A map[string]*Action: nil, or a map m from action identifiers to records.
NilMap ==
    [nil |-> TRUE, m |-> <<>>]

\* &Action{}
NewAction ==
    [Name |-> <<>>, Icon |-> <<>>, Exec |-> <<>>]

\* de.Actions[action] != nil (a lookup in a nil map yields nil as well)
HasAction(e, action) ==
    action \in DOMAIN e.Actions.m

\* groupState
unknownGroup ==
    0

desktopEntryGroup ==
    1

desktopActionGroup ==
    2

\* NewEntry with GnomeAutostartEnabled left at the zero value of bool.
NewEntry_ZeroValue ==
    [Filename |-> TheFilename,
     Name |-> <<>>, Icon |-> <<>>, Exec |-> <<>>,
     Hidden |-> FALSE,
     OnlyShowIn |-> NilList, NotShownIn |-> NilList,
     GnomeAutostartEnabled |-> FALSE,
     Actions |-> NilMap]

\* The entry parse starts from: &DesktopEntry{Filename, GnomeAutostartEnabled: true}
NewEntry ==
    [Filename |-> TheFilename,
     Name |-> <<>>, Icon |-> <<>>, Exec |-> <<>>,
     Hidden |-> FALSE,
     OnlyShowIn |-> NilList, NotShownIn |-> NilList,
     GnomeAutostartEnabled |-> TRUE,
     Actions |-> NilMap]

\* ---------------------------------------------------------------------
\* State
\* ---------------------------------------------------------------------

VARIABLES
    pc,                     \* "load", "scan", "done", "autostart", "expanded",
                            \* "split", "splitDone"
    consumed,               \* the tokens scanner.Scan has delivered so far
    streamErr,              \* the reader has returned an error
    de,                     \* the entry under construction
    currentGroup,
    seenDesktopEntryGroup,
    actions,                \* the declared actions ([]string, nil at first)
    currentAction,          \* <<>> (nil) or <<key of the record pointed to>>
    result,                 \* returned *DesktopEntry: <<>> (nil) or <<entry>>
    err,                    \* returned error: "nil" or the kind of error
    currentDesktop,         \* argument of the last ShouldAutostart call
    autostart,              \* <<>> or <<value returned by ShouldAutostart>>
    actionArg,              \* <<>> (ExpandExec) or <<action of ExpandActionExec>>
    uris,                   \* the uris argument of the last Expand call
    expandArgs,             \* <<>> or <<the arguments handed to expandExec>>
    argv,                   \* returned []string: <<>> (nil) or <<vector>>
    execErr,                \* returned error of the Expand call
    splitValue,             \* argument of splitStringList
    splitResult             \* <<>> or <<list returned by splitStringList>>

vars ==
    <<pc, consumed, streamErr, de, currentGroup, seenDesktopEntryGroup,
      actions, currentAction, result, err, currentDesktop, autostart,
      actionArg, uris, expandArgs, argv, execErr, splitValue, splitResult>>

parseVars ==
    <<de, currentGroup, seenDesktopEntryGroup, actions, currentAction>>

expandVars ==
    <<actionArg, uris, expandArgs, argv, execErr>>

splitVars ==
    <<splitValue, splitResult>>

queryVars ==
    <<currentDesktop, autostart, expandVars, splitVars>>

\* No method of the entry has been called, and splitStringList is not under
\* test.
NoCalls ==
    /\ currentDesktop = <<>>
    /\ autostart = <<>>
    /\ actionArg = <<>>
    /\ uris = <<>>
    /\ expandArgs = <<>>
    /\ argv = <<>>
    /\ execErr = "nil"
    /\ splitValue = <<>>
    /\ splitResult = <<>>

Init ==
    /\ pc = "load"
    /\ consumed = <<>>
    /\ streamErr = FALSE
    /\ de = NewEntry
    /\ currentGroup = unknownGroup
    /\ seenDesktopEntryGroup = FALSE
    /\ actions = NilList
    /\ currentAction = <<>>
    /\ result = <<>>
    /\ err = "nil"
    /\ NoCalls

\* ---------------------------------------------------------------------
\* Load and parse
\* ---------------------------------------------------------------------

\* The cutset "\t\n\v\f\r " of lines 126-127.
Cutset ==
    {"\t", "\n", "\f", "\r", " "}

\* os.Open fails: Load returns (nil, err).
LoadOpenFails ==
    /\ pc = "load"
    /\ pc' = "done"
    /\ result' = <<>>
    /\ err' = "open"
    /\ UNCHANGED <<consumed, streamErr, parseVars, queryVars>>

\* os.Open succeeds: Load calls parse, which sets up the entry and its
\* local variables.
LoadOpens ==
    /\ pc = "load"
    /\ pc' = "scan"
    /\ de' = NewEntry
    /\ currentGroup' = unknownGroup
    /\ seenDesktopEntryGroup' = FALSE
    /\ actions' = NilList
    /\ currentAction' = <<>>
    /\ UNCHANGED <<consumed, streamErr, result, err, queryVars>>

\* Fail, were it to hand the entry built so far to the caller.
Fail_ReturnsPartialEntry(kind) ==
    /\ pc' = "done"
    /\ result' = <<de>>
    /\ err' = kind
    /\ UNCHANGED parseVars

\* return nil, fmt.Errorf(...)
Fail(kind) ==
    /\ pc' = "done"
    /\ result' = <<>>
    /\ err' = kind
    /\ UNCHANGED parseVars

\* The loop goes on to the next scanner.Scan().
Continue ==
    /\ pc' = "scan"
    /\ UNCHANGED <<result, err>>

\* StartDesktopEntryGroup without the test of seenDesktopEntryGroup.
StartDesktopEntryGroup_NoSeenCheck ==
    /\ seenDesktopEntryGroup' = TRUE
    /\ currentGroup' = desktopEntryGroup
    /\ UNCHANGED <<de, actions, currentAction>>
    /\ Continue

\* line == "[Desktop Entry]"
StartDesktopEntryGroup ==
    IF seenDesktopEntryGroup
    THEN Fail("multiple [Desktop Entry] groups")
    ELSE /\ seenDesktopEntryGroup' = TRUE
         /\ currentGroup' = desktopEntryGroup
         /\ UNCHANGED <<de, actions, currentAction>>
         /\ Continue

\* StartDesktopActionGroup without the test that the action is declared.
StartDesktopActionGroup_NoDeclaredCheck(line) ==
    LET action == SubSeq(line, Len(LitDesktopActionPrefix) + 1, Len(line) - 1)
    IN  IF HasAction(de, action)
        THEN Fail("multiple action groups")
        ELSE /\ currentGroup' = desktopActionGroup
             /\ de' = [de EXCEPT !.Actions =
                          [nil |-> FALSE, m |-> (action :> NewAction) @@ de.Actions.m]]
             /\ currentAction' = <<action>>
             /\ UNCHANGED <<seenDesktopEntryGroup, actions>>
             /\ Continue

\* StartDesktopActionGroup without the test that the action has no group yet.
StartDesktopActionGroup_NoDuplicateCheck(line) ==
    LET action == SubSeq(line, Len(LitDesktopActionPrefix) + 1, Len(line) - 1)
    IN  IF ~ListContains(actions.elems, action)
        THEN Fail("unknown action")
        ELSE /\ currentGroup' = desktopActionGroup
             /\ de' = [de EXCEPT !.Actions =
                          [nil |-> FALSE, m |-> (action :> NewAction) @@ de.Actions.m]]
             /\ currentAction' = <<action>>
             /\ UNCHANGED <<seenDesktopEntryGroup, actions>>
             /\ Continue

\* StartDesktopActionGroup, were the declaration looked up only once a
\* [Desktop Entry] group has been read.
StartDesktopActionGroup_ChecksAfterEntryGroup(line) ==
    LET action == SubSeq(line, Len(LitDesktopActionPrefix) + 1, Len(line) - 1)
    IN  IF seenDesktopEntryGroup /\ ~ListContains(actions.elems, action)
        THEN Fail("unknown action")
        ELSE IF HasAction(de, action)
        THEN Fail("multiple action groups")
        ELSE /\ currentGroup' = desktopActionGroup
             /\ de' = [de EXCEPT !.Actions =
                          [nil |-> FALSE, m |-> (action :> NewAction) @@ de.Actions.m]]
             /\ currentAction' = <<action>>
             /\ UNCHANGED <<seenDesktopEntryGroup, actions>>
             /\ Continue

\* line has the prefix "[Desktop Action " and the suffix "]"
StartDesktopActionGroup(line) ==
    LET action == SubSeq(line, Len(LitDesktopActionPrefix) + 1, Len(line) - 1)
    IN  IF ~ListContains(actions.elems, action)
        THEN Fail("unknown action")
        ELSE IF HasAction(de, action)
        THEN Fail("multiple action groups")
        ELSE /\ currentGroup' = desktopActionGroup
             /\ de' = [de EXCEPT !.Actions =
                          [nil |-> FALSE, m |-> (action :> NewAction) @@ de.Actions.m]]
             /\ currentAction' = <<action>>
             /\ UNCHANGED <<seenDesktopEntryGroup, actions>>
             /\ Continue

\* StartOtherGroup, were an unrecognized header to open the entry group.
StartOtherGroup_EntersEntryGroup ==
    /\ currentGroup' = desktopEntryGroup
    /\ UNCHANGED <<de, seenDesktopEntryGroup, actions, currentAction>>
    /\ Continue

\* Any other line that starts with "[".
StartOtherGroup ==
    /\ currentGroup' = unknownGroup
    /\ UNCHANGED <<de, seenDesktopEntryGroup, actions, currentAction>>
    /\ Continue

\* SetEntryKey, were it to store a list only when it has an element.
SetEntryKey_EmptyListIsNil(e, key, value) ==
    LET list == splitStringList(value)
        stored == IF list = <<>> THEN NilList ELSE MkList(list)
    IN  IF key = KeyName THEN [e EXCEPT !.Name = value]
        ELSE IF key = KeyIcon THEN [e EXCEPT !.Icon = value]
        ELSE IF key = KeyExec THEN [e EXCEPT !.Exec = value]
        ELSE IF key = KeyHidden THEN [e EXCEPT !.Hidden = (value = LitTrue)]
        ELSE IF key = KeyOnlyShowIn THEN [e EXCEPT !.OnlyShowIn = stored]
        ELSE IF key = KeyNotShownIn THEN [e EXCEPT !.NotShownIn = stored]
        ELSE IF key = KeyGnomeAutostart THEN [e EXCEPT !.GnomeAutostartEnabled = (value = LitTrue)]
        ELSE e

\* The inner switch of case desktopEntryGroup, on the entry.
SetEntryKey(e, key, value) ==
    IF key = KeyName THEN [e EXCEPT !.Name = value]
    ELSE IF key = KeyIcon THEN [e EXCEPT !.Icon = value]
    ELSE IF key = KeyExec THEN [e EXCEPT !.Exec = value]
    ELSE IF key = KeyHidden THEN [e EXCEPT !.Hidden = (value = LitTrue)]
    ELSE IF key = KeyOnlyShowIn THEN [e EXCEPT !.OnlyShowIn = MkList(splitStringList(value))]
    ELSE IF key = KeyNotShownIn THEN [e EXCEPT !.NotShownIn = MkList(splitStringList(value))]
    ELSE IF key = KeyGnomeAutostart THEN [e EXCEPT !.GnomeAutostartEnabled = (value = LitTrue)]
    ELSE e

\* The inner switch of case desktopEntryGroup, on the local variable actions.
SetDeclaredActions(acts, key, value) ==
    IF key = KeyActions THEN MkList(splitStringList(value)) ELSE acts

\* SetActionKey, were the Name of an action to become that of the entry too.
SetActionKey_AlsoNamesEntry(e, cur, key, value) ==
    IF key = KeyName THEN [e EXCEPT !.Name = value, !.Actions.m[cur].Name = value]
    ELSE IF key = KeyIcon THEN [e EXCEPT !.Actions.m[cur].Icon = value]
    ELSE IF key = KeyExec THEN [e EXCEPT !.Actions.m[cur].Exec = value]
    ELSE e

\* The inner switch of case desktopActionGroup: writes through currentAction,
\* which points to the record stored under cur in e.Actions.
SetActionKey(e, cur, key, value) ==
    IF key = KeyName THEN [e EXCEPT !.Actions.m[cur].Name = value]
    ELSE IF key = KeyIcon THEN [e EXCEPT !.Actions.m[cur].Icon = value]
    ELSE IF key = KeyExec THEN [e EXCEPT !.Actions.m[cur].Exec = value]
    ELSE e

\* KeyValueLine, were it to test for the "=" only in the groups it stores
\* keys of.
KeyValueLine_ChecksInsideGroupsOnly(line) ==
    LET split == SplitN2(line, "=")
    IN  IF currentGroup = unknownGroup
        THEN UNCHANGED parseVars /\ Continue
        ELSE IF Len(split) # 2
        THEN Fail("badly formed")
        ELSE LET key   == TrimRight(split[1], Cutset)
                 value == TrimLeft(split[2], Cutset)
             IN  /\ de' = CASE currentGroup = desktopEntryGroup ->
                                   SetEntryKey(de, key, value)
                            [] currentGroup = desktopActionGroup /\ currentAction # <<>> ->
                                   SetActionKey(de, currentAction[1], key, value)
                            [] OTHER -> de
                 /\ actions' = IF currentGroup = desktopEntryGroup
                               THEN SetDeclaredActions(actions, key, value)
                               ELSE actions
                 /\ UNCHANGED <<currentGroup, seenDesktopEntryGroup, currentAction>>
                 /\ Continue

\* KeyValueLine, were an Actions key to declare actions in every group.
KeyValueLine_DeclaresEverywhere(line) ==
    LET split == SplitN2(line, "=")
    IN  IF Len(split) # 2
        THEN Fail("badly formed")
        ELSE LET key   == TrimRight(split[1], Cutset)
                 value == TrimLeft(split[2], Cutset)
             IN  /\ de' = CASE currentGroup = desktopEntryGroup ->
                                   SetEntryKey(de, key, value)
                            [] currentGroup = desktopActionGroup /\ currentAction # <<>> ->
                                   SetActionKey(de, currentAction[1], key, value)
                            [] OTHER -> de
                 /\ actions' = SetDeclaredActions(actions, key, value)
                 /\ UNCHANGED <<currentGroup, seenDesktopEntryGroup, currentAction>>
                 /\ Continue

\* KeyValueLine, were the keys outside the action groups stored in the entry.
KeyValueLine_StoresOutsideGroups(line) ==
    LET split == SplitN2(line, "=")
    IN  IF Len(split) # 2
        THEN Fail("badly formed")
        ELSE LET key   == TrimRight(split[1], Cutset)
                 value == TrimLeft(split[2], Cutset)
             IN  /\ de' = IF currentGroup = desktopActionGroup /\ currentAction # <<>>
                           THEN SetActionKey(de, currentAction[1], key, value)
                           ELSE SetEntryKey(de, key, value)
                 /\ actions' = IF currentGroup = desktopEntryGroup
                               THEN SetDeclaredActions(actions, key, value)
                               ELSE actions
                 /\ UNCHANGED <<currentGroup, seenDesktopEntryGroup, currentAction>>
                 /\ Continue

\* A line that is no group header: split on the first "=", then store.
KeyValueLine(line) ==
    LET split == SplitN2(line, "=")
    IN  IF Len(split) # 2
        THEN Fail("badly formed")
        ELSE LET key   == TrimRight(split[1], Cutset)
                 value == TrimLeft(split[2], Cutset)
             IN  /\ de' = CASE currentGroup = desktopEntryGroup ->
                                   SetEntryKey(de, key, value)
                            [] currentGroup = desktopActionGroup /\ currentAction # <<>> ->
                                   SetActionKey(de, currentAction[1], key, value)
                            [] OTHER -> de
                 /\ actions' = IF currentGroup = desktopEntryGroup
                               THEN SetDeclaredActions(actions, key, value)
                               ELSE actions
                 /\ UNCHANGED <<currentGroup, seenDesktopEntryGroup, currentAction>>
                 /\ Continue

\* The body of the loop for one token of the scanner.
ProcessLine(text) ==
    LET line == TrimSpace(text)
    IN  IF line = <<>> \/ HasPrefix(line, <<"#">>)
        THEN UNCHANGED parseVars /\ Continue
        ELSE IF HasPrefix(line, <<"[">>)
        THEN IF line = LitDesktopEntry
             THEN StartDesktopEntryGroup
             ELSE IF HasPrefix(line, LitDesktopActionPrefix) /\ HasSuffix(line, LitCloseBracket)
             THEN StartDesktopActionGroup(line)
             ELSE StartOtherGroup
        ELSE KeyValueLine(line)

\* scanner.Scan() returns true with a complete line, one of lineSet: one
\* iteration of the loop.
ScanLineFrom(lineSet) ==
    /\ pc = "scan"
    /\ ~streamErr
    /\ Len(consumed) < MaxLines
    /\ \E text \in lineSet :
          /\ consumed' = Append(consumed, text)
          /\ ProcessLine(text)
    /\ UNCHANGED <<streamErr, queryVars>>

ScanLine ==
    ScanLineFrom(Lines)

ScanGnomeLine ==
    ScanLineFrom(GnomeLines)

\* return de, nil
ReturnEntry ==
    /\ pc' = "done"
    /\ result' = <<de>>
    /\ err' = "nil"
    /\ UNCHANGED parseVars

\* scanner.Scan() returns false: the loop ends and parse returns the entry.
\* Scan returns false at end of input and also after a read error; the code
\* does not look at scanner.Err().
ScanEnds ==
    /\ pc = "scan"
    /\ ReturnEntry
    /\ UNCHANGED <<consumed, streamErr, queryVars>>

\* The reader returns an error.  With nothing buffered, Scan returns false at
\* once; with a partial line buffered, Scan first delivers it as the last
\* token, and returns false on the next call.
ReadFails ==
    /\ pc = "scan"
    /\ ~streamErr
    /\ streamErr' = TRUE
    /\ \/ /\ ReturnEntry
          /\ UNCHANGED consumed
       \/ /\ Len(consumed) < MaxLines
          /\ \E tok \in PartialTokens :
                /\ consumed' = Append(consumed, tok)
                /\ ProcessLine(tok)
    /\ UNCHANGED queryVars

Next ==
    \/ LoadOpenFails
    \/ LoadOpens
    \/ ScanLine
    \/ ScanEnds
    \/ ReadFails

Spec ==
    Init /\ [][Next]_vars

\* Load on the files made of GnomeLines.
NextGnome ==
    \/ LoadOpenFails
    \/ LoadOpens
    \/ ScanGnomeLine
    \/ ScanEnds
    \/ ReadFails

SpecGnome ==
    Init /\ [][NextGnome]_vars

ScanShowLine ==
    ScanLineFrom(ShowLines)

ScanUnknownLine ==
    ScanLineFrom(UnknownLines)

\* Load on the files made of UnknownLines.
NextUnknown ==
    \/ LoadOpenFails
    \/ LoadOpens
    \/ ScanUnknownLine
    \/ ScanEnds
    \/ ReadFails

SpecUnknown ==
    Init /\ [][NextUnknown]_vars

\* One iteration of the loop, in a parse of at most limit lines.
ScanLineUpTo(lineSet, limit) ==
    /\ pc = "scan"
    /\ ~streamErr
    /\ Len(consumed) < limit
    /\ \E text \in lineSet :
          /\ consumed' = Append(consumed, text)
          /\ ProcessLine(text)
    /\ UNCHANGED <<streamErr, queryVars>>

ScanKeyLine ==
    ScanLineUpTo(KeyLines, MaxKeyLines)

\* Load on the files made of KeyLines.
NextKeys ==
    \/ LoadOpenFails
    \/ LoadOpens
    \/ ScanKeyLine
    \/ ScanEnds
    \/ ReadFails

SpecKeys ==
    Init /\ [][NextKeys]_vars

ScanGroupLine ==
    ScanLineUpTo(GroupLines, MaxGroupLines)

\* Load on the files made of GroupLines.
NextGroups ==
    \/ LoadOpenFails
    \/ LoadOpens
    \/ ScanGroupLine
    \/ ScanEnds
    \/ ReadFails

SpecGroups ==
    Init /\ [][NextGroups]_vars

\* ---------------------------------------------------------------------
\* ShouldAutostart
\* ---------------------------------------------------------------------

\* isOneOfIn: the loop over "of", returning at the first element that
\* "other" contains.
RECURSIVE isOneOfInFrom(_, _, _)
isOneOfInFrom(of, other, i) ==
    IF i > Len(of) THEN FALSE
    ELSE IF ListContains(other, of[i]) THEN TRUE
    ELSE isOneOfInFrom(of, other, i + 1)

\* isOneOfIn, were it to look at the first element of "of" only.
isOneOfIn_FirstOnly(of, other) ==
    Len(of) > 0 /\ ListContains(other, of[1])

isOneOfIn(of, other) ==
    isOneOfInFrom(of, other, 1)

\* ShouldAutostart without the test of Hidden.
ShouldAutostart_IgnoresHidden(e, desktop) ==
    IF ~e.GnomeAutostartEnabled /\ ListContains(desktop, LitGNOME) THEN FALSE
    ELSE IF ~e.OnlyShowIn.nil /\ ~isOneOfIn(desktop, e.OnlyShowIn.elems) THEN FALSE
    ELSE IF ~e.NotShownIn.nil /\ isOneOfIn(desktop, e.NotShownIn.elems) THEN FALSE
    ELSE TRUE

\* ShouldAutostart, were the GNOME flag to count on every desktop.
ShouldAutostart_GnomeFlagEverywhere(e, desktop) ==
    IF e.Hidden THEN FALSE
    ELSE IF ~e.GnomeAutostartEnabled THEN FALSE
    ELSE IF ~e.OnlyShowIn.nil /\ ~isOneOfIn(desktop, e.OnlyShowIn.elems) THEN FALSE
    ELSE IF ~e.NotShownIn.nil /\ isOneOfIn(desktop, e.NotShownIn.elems) THEN FALSE
    ELSE TRUE

ShouldAutostart(e, desktop) ==
    IF e.Hidden THEN FALSE
    ELSE IF ~e.GnomeAutostartEnabled /\ ListContains(desktop, LitGNOME) THEN FALSE
    ELSE IF ~e.OnlyShowIn.nil /\ ~isOneOfIn(desktop, e.OnlyShowIn.elems) THEN FALSE
    ELSE IF ~e.NotShownIn.nil /\ isOneOfIn(desktop, e.NotShownIn.elems) THEN FALSE
    ELSE TRUE

\* The desktop identifiers of the model.
DesktopNames ==
    {LitGNOME, DeskKDE, DeskXFCE}

SeqsUpTo(S, n) ==
    UNION { [1..k -> S] : k \in 0..n }

\* The values of a []string field: nil, or a list of desktop identifiers.
DesktopLists ==
    {NilList} \cup { MkList(s) : s \in SeqsUpTo(DesktopNames, MaxDesktops) }

\* The entries ShouldAutostart is applied to.
AutostartEntries ==
    { [NewEntry EXCEPT !.Hidden = h, !.GnomeAutostartEnabled = g,
                       !.OnlyShowIn = o, !.NotShownIn = n] :
        h \in BOOLEAN, g \in BOOLEAN, o \in DesktopLists, n \in DesktopLists }

\* A caller that holds an entry calls ShouldAutostart(currentDesktop) on it;
\* the method reads the entry and changes nothing.
CallShouldAutostart ==
    /\ pc = "done"
    /\ result # <<>>
    /\ \E desktop \in SeqsUpTo(DesktopNames, MaxDesktops) :
          /\ currentDesktop' = desktop
          /\ autostart' = <<ShouldAutostart(result[1], desktop)>>
    /\ pc' = "autostart"
    /\ UNCHANGED <<consumed, streamErr, parseVars, result, err, expandVars, splitVars>>

InitAutostart ==
    /\ pc = "done"
    /\ consumed = <<>>
    /\ streamErr = FALSE
    /\ de \in AutostartEntries
    /\ currentGroup = unknownGroup
    /\ seenDesktopEntryGroup = FALSE
    /\ actions = NilList
    /\ currentAction = <<>>
    /\ result = <<de>>
    /\ err = "nil"
    /\ NoCalls

NextAutostart ==
    CallShouldAutostart

SpecAutostart ==
    InitAutostart /\ [][NextAutostart]_vars

\* The desktop lists of the callers of an entry that Load has returned.
LoadedDesktopNames ==
    {LitGNOME, DeskXFCE}

\* ShouldAutostart(currentDesktop) on the entry that Load has returned.
CallShouldAutostartLoaded ==
    /\ pc = "done"
    /\ result # <<>>
    /\ \E desktop \in SeqsUpTo(LoadedDesktopNames, MaxDesktops) :
          /\ currentDesktop' = desktop
          /\ autostart' = <<ShouldAutostart(result[1], desktop)>>
    /\ pc' = "autostart"
    /\ UNCHANGED <<consumed, streamErr, parseVars, result, err, expandVars, splitVars>>

\* Load on the files made of ShowLines, then ShouldAutostart on the entry.
NextShow ==
    \/ LoadOpenFails
    \/ LoadOpens
    \/ ScanShowLine
    \/ ScanEnds
    \/ ReadFails
    \/ CallShouldAutostartLoaded

SpecShow ==
    Init /\ [][NextShow]_vars

\* ---------------------------------------------------------------------
\* ExpandExec and ExpandActionExec
\* ---------------------------------------------------------------------

\* expandExec(de, exec, uris), the expansion routine: it returns an argument
\* vector or an error.  The vector is kept as the arguments it is made from.
expandExec(e, exec, uriList) ==
    { [argv |-> <<[exec |-> exec, uris |-> uriList]>>, err |-> "nil"],
      [argv |-> <<>>, err |-> "expansion failed"] }

\* What a call returns, and what it handed to expandExec (<<>> if it did not
\* call it).
Refused(kind) ==
    { [handed |-> <<>>, argv |-> <<>>, err |-> kind] }

Delegated(e, exec, uriList) ==
    { [handed |-> <<[exec |-> exec, uris |-> uriList]>>, argv |-> o.argv, err |-> o.err] :
        o \in expandExec(e, exec, uriList) }

\* ExpandExec without the test of an empty Exec.
ExpandExec_NoEmptyCheck(e, uriList) ==
    Delegated(e, e.Exec, uriList)

ExpandExec(e, uriList) ==
    IF e.Exec = <<>>
    THEN Refused("no Exec line")
    ELSE Delegated(e, e.Exec, uriList)

\* ExpandActionExec, were it to fall back to the Exec of the entry when the
\* action has none.
ExpandActionExec_FallsBackToEntry(e, action, uriList) ==
    IF ~HasAction(e, action)
    THEN Refused("no such action")
    ELSE IF e.Actions.m[action].Exec = <<>>
    THEN Delegated(e, e.Exec, uriList)
    ELSE Delegated(e, e.Actions.m[action].Exec, uriList)

ExpandActionExec(e, action, uriList) ==
    IF ~HasAction(e, action)
    THEN Refused("no such action")
    ELSE IF e.Actions.m[action].Exec = <<>>
    THEN Refused("action has no Exec line")
    ELSE Delegated(e, e.Actions.m[action].Exec, uriList)

UriLists ==
    SeqsUpTo({UriA}, MaxUris)

ActionNames ==
    {NameA, NameB, NameC}

\* A caller calls ExpandExec(uris) on the entry that Load has returned.
CallExpandExec ==
    /\ pc = "done"
    /\ result # <<>>
    /\ \E uriList \in UriLists :
          \E o \in ExpandExec(result[1], uriList) :
             /\ actionArg' = <<>>
             /\ uris' = uriList
             /\ expandArgs' = o.handed
             /\ argv' = o.argv
             /\ execErr' = o.err
    /\ pc' = "expanded"
    /\ UNCHANGED <<consumed, streamErr, parseVars, result, err,
                   currentDesktop, autostart, splitVars>>

\* A caller calls ExpandActionExec(action, uris) on the entry that Load has
\* returned.
CallExpandActionExec ==
    /\ pc = "done"
    /\ result # <<>>
    /\ \E action \in ActionNames, uriList \in UriLists :
          \E o \in ExpandActionExec(result[1], action, uriList) :
             /\ actionArg' = <<action>>
             /\ uris' = uriList
             /\ expandArgs' = o.handed
             /\ argv' = o.argv
             /\ execErr' = o.err
    /\ pc' = "expanded"
    /\ UNCHANGED <<consumed, streamErr, parseVars, result, err,
                   currentDesktop, autostart, splitVars>>

ScanExecLine ==
    ScanLineFrom(ExecLines)

\* Load on the files made of ExecLines, then one of the Expand calls.
NextExec ==
    \/ LoadOpenFails
    \/ LoadOpens
    \/ ScanExecLine
    \/ ScanEnds
    \/ ReadFails
    \/ CallExpandExec
    \/ CallExpandActionExec

SpecExec ==
    Init /\ [][NextExec]_vars

\* ---------------------------------------------------------------------
\* splitStringList on its own
\* ---------------------------------------------------------------------

SplitChars ==
    {";", "a", "b"}

SplitValues ==
    SeqsUpTo(SplitChars, MaxValueLen)

InitSplit ==
    /\ pc = "split"
    /\ consumed = <<>>
    /\ streamErr = FALSE
    /\ de = NewEntry
    /\ currentGroup = unknownGroup
    /\ seenDesktopEntryGroup = FALSE
    /\ actions = NilList
    /\ currentAction = <<>>
    /\ result = <<>>
    /\ err = "nil"
    /\ currentDesktop = <<>>
    /\ autostart = <<>>
    /\ actionArg = <<>>
    /\ uris = <<>>
    /\ expandArgs = <<>>
    /\ argv = <<>>
    /\ execErr = "nil"
    /\ splitValue \in SplitValues
    /\ splitResult = <<>>

CallSplitStringList ==
    /\ pc = "split"
    /\ splitResult' = splitStringList(splitValue)
    /\ pc' = "splitDone"
    /\ UNCHANGED <<consumed, streamErr, parseVars, result, err,
                   currentDesktop, autostart, expandVars, splitValue>>

NextSplit ==
    CallSplitStringList

SpecSplit ==
    InitSplit /\ [][NextSplit]_vars

\* ---------------------------------------------------------------------
\* The input as the claims describe it, read off the delivered lines
\* ---------------------------------------------------------------------

Failed ==
    pc = "done" /\ result = <<>> /\ err # "nil"

Succeeded ==
    pc = "done" /\ result # <<>> /\ err = "nil"

Positions ==
    1..Len(consumed)

Trimmed(i) ==
    TrimSpace(consumed[i])

IsHeaderLine(i) ==
    Trimmed(i) # <<>> /\ Head(Trimmed(i)) = "["

IsEntryHeader(i) ==
    Trimmed(i) = LitDesktopEntry

IsActionHeader(i) ==
    /\ HasPrefix(Trimmed(i), LitDesktopActionPrefix)
    /\ HasSuffix(Trimmed(i), LitCloseBracket)

\* The name X of the header "[Desktop Action X]" at position i.
HeaderAction(i) ==
    SubSeq(Trimmed(i), Len(LitDesktopActionPrefix) + 1, Len(Trimmed(i)) - 1)

\* A line that is not blank, no comment and no group header.
IsPlainLine(i) ==
    Trimmed(i) # <<>> /\ Head(Trimmed(i)) \notin {"#", "["}

HasEquals(i) ==
    \E k \in 1..Len(Trimmed(i)) : Trimmed(i)[k] = "="

IsKeyLine(i) ==
    IsPlainLine(i) /\ HasEquals(i)

LineKey(i) ==
    TrimRight(SplitN2(Trimmed(i), "=")[1], WhiteSpace)

LineValue(i) ==
    TrimLeft(SplitN2(Trimmed(i), "=")[2], WhiteSpace)

MaxOf(S) ==
    CHOOSE x \in S : \A y \in S : y <= x

\* Position of the group header that governs line i, 0 before any header.
HeaderBefore(i) ==
    LET hs == { h \in 1..(i - 1) : IsHeaderLine(h) }
    IN  IF hs = {} THEN 0 ELSE MaxOf(hs)

InEntryGroup(i) ==
    HeaderBefore(i) # 0 /\ IsEntryHeader(HeaderBefore(i))

InActionGroup(i) ==
    HeaderBefore(i) # 0 /\ IsActionHeader(HeaderBefore(i))

\* The positions before i of the lines "key=..." inside [Desktop Entry].
EntryKeyLines(key, i) ==
    { k \in 1..(i - 1) : IsKeyLine(k) /\ InEntryGroup(k) /\ LineKey(k) = key }

\* The action names declared when line i is read: those of the most recent
\* Actions= key of the [Desktop Entry] group, none if there is no such key.
DeclaredAt(i) ==
    LET ks == EntryKeyLines(KeyActions, i)
    IN  IF ks = {} THEN <<>> ELSE splitStringList(LineValue(MaxOf(ks)))

\* --- The structural violations ---

DuplicateEntryHeader ==
    \E i, j \in Positions : i < j /\ IsEntryHeader(i) /\ IsEntryHeader(j)

UndeclaredActionHeader ==
    \E i \in Positions :
        IsActionHeader(i) /\ ~ListContains(DeclaredAt(i), HeaderAction(i))

DuplicateActionHeader ==
    \E i, j \in Positions :
        /\ i < j
        /\ IsActionHeader(i) /\ IsActionHeader(j)
        /\ HeaderAction(i) = HeaderAction(j)

LineWithoutEquals ==
    \E i \in Positions : IsPlainLine(i) /\ ~HasEquals(i)

\* ---------------------------------------------------------------------
\* Properties
\* ---------------------------------------------------------------------

\* C1: an input with two lines that are "[Desktop Entry]" after trimming
\* makes parse fail with an error, whatever lies before or between them.
C1_TwoEntryGroupsFail ==
    DuplicateEntryHeader => Failed

\* A failed parse of two differently padded [Desktop Entry] lines with
\* another line between them.
C1_Witness ==
    /\ Failed
    /\ err = "multiple [Desktop Entry] groups"
    /\ \E i, j \in Positions :
          /\ i + 1 < j
          /\ IsEntryHeader(i) /\ IsEntryHeader(j)
          /\ consumed[i] # consumed[j]

\* C2: parse fails, with the unknown-action error, at every
\* [Desktop Action X] header whose X is not in the list of the most recent
\* Actions= key read inside [Desktop Entry]; Actions= keys elsewhere declare
\* nothing.
C2_UndeclaredActionFails ==
    \A i \in Positions :
        (IsActionHeader(i) /\ ~ListContains(DeclaredAt(i), HeaderAction(i)))
            => (Failed /\ err = "unknown action" /\ i = Len(consumed))

\* The failing header names an action that an Actions= line of the
\* [Desktop Entry] group lists, but a later Actions= line of the group does
\* not.
C2_Witness ==
    /\ Failed
    /\ err = "unknown action"
    /\ Len(consumed) > 0
    /\ IsActionHeader(Len(consumed))
    /\ \E k \in Positions :
          /\ IsKeyLine(k)
          /\ InEntryGroup(k)
          /\ LineKey(k) = KeyActions
          /\ ListContains(splitStringList(LineValue(k)), HeaderAction(Len(consumed)))

\* C3: an input in which the header of one action occurs twice makes parse
\* fail; no successful parse has read two groups of the same action.
C3_DuplicateActionGroupFails ==
    DuplicateActionHeader => (Failed /\ IsActionHeader(Len(consumed)))

\* The second header of a declared action is refused as a duplicate.
C3_Witness ==
    /\ Failed
    /\ err = "multiple action groups"
    /\ DuplicateActionHeader

\* C4: when reading the input fails (the file cannot be opened, or the
\* stream returns a read error), the caller receives an error and no entry.
C4_ReadFailureIsReported ==
    (pc = "done" /\ (streamErr \/ err = "open")) => Failed

\* C5: a non-blank line that starts with neither "#" nor "[" and has no "="
\* makes parse fail as badly formed, in every group state.
C5_LineWithoutEqualsFails ==
    LineWithoutEquals => (Failed /\ err = "badly formed")

\* Such a line inside an action group.
C5_Witness ==
    /\ Failed
    /\ err = "badly formed"
    /\ currentGroup = desktopActionGroup
    /\ Len(consumed) > 0
    /\ IsPlainLine(Len(consumed)) /\ ~HasEquals(Len(consumed))

\* C6: parse returns either an entry and no error, or no entry and an error;
\* after any structural violation it is no entry and an error.
C6_AllOrNothing ==
    /\ pc = "done" => (Succeeded \/ Failed)
    /\ ( \/ DuplicateEntryHeader
         \/ UndeclaredActionHeader
         \/ DuplicateActionHeader
         \/ LineWithoutEquals ) => Failed

\* A parse that fails after it has stored fields of the entry.
C6_Witness ==
    /\ Failed
    /\ de.Name # <<>>
    /\ de.Exec # <<>>
    /\ result = <<>>

\* --- ShouldAutostart ---

Elems(list) ==
    { list[i] : i \in 1..Len(list) }

\* The entry the caller holds.
Entry ==
    result[1]

\* The four conditions of the autostart decision, on sets.
AutostartConditions(e, desktop) ==
    /\ ~e.Hidden
    /\ e.GnomeAutostartEnabled \/ LitGNOME \notin Elems(desktop)
    /\ e.OnlyShowIn.nil \/ Elems(e.OnlyShowIn.elems) \cap Elems(desktop) # {}
    /\ e.NotShownIn.nil \/ Elems(e.NotShownIn.elems) \cap Elems(desktop) = {}

\* C7: ShouldAutostart returns true exactly when Hidden is false, the GNOME
\* flag is set or the desktop is not GNOME, OnlyShowIn is nil or overlaps
\* currentDesktop, and NotShownIn is nil or does not overlap it.
C7_AutostartDecision ==
    pc = "autostart" => autostart = <<AutostartConditions(Entry, currentDesktop)>>

\* A call that returns true although OnlyShowIn and NotShownIn are both
\* set: the desktop that OnlyShowIn lists is the second of currentDesktop,
\* not the first.
C7_Witness ==
    /\ pc = "autostart"
    /\ autostart = <<TRUE>>
    /\ Len(currentDesktop) = 2
    /\ ~Entry.OnlyShowIn.nil
    /\ ~ListContains(Entry.OnlyShowIn.elems, currentDesktop[1])
    /\ ~Entry.NotShownIn.nil /\ Entry.NotShownIn.elems # <<>>

\* C8: an entry whose Hidden is true never autostarts, whatever the desktop
\* and the other fields.
C8_HiddenNeverAutostarts ==
    (pc = "autostart" /\ Entry.Hidden) => autostart = <<FALSE>>

\* A hidden entry that every other rule would let start, on the empty
\* desktop list.
C8_Witness ==
    /\ pc = "autostart"
    /\ Entry.Hidden
    /\ Entry.GnomeAutostartEnabled
    /\ Entry.OnlyShowIn.nil /\ Entry.NotShownIn.nil
    /\ currentDesktop = <<>>
    /\ autostart = <<FALSE>>

\* C9: on a desktop list without "GNOME", the entry that differs only in
\* GnomeAutostartEnabled gets the same answer.
C9_GnomeFlagIgnoredElsewhere ==
    (pc = "autostart" /\ ~ListContains(currentDesktop, LitGNOME))
        => autostart = <<ShouldAutostart(
                            [Entry EXCEPT !.GnomeAutostartEnabled = ~@],
                            currentDesktop)>>

\* An entry with the flag cleared starts on a non-GNOME desktop.
C9_Witness ==
    /\ pc = "autostart"
    /\ ~Entry.GnomeAutostartEnabled
    /\ currentDesktop # <<>>
    /\ ~ListContains(currentDesktop, LitGNOME)
    /\ autostart = <<TRUE>>

\* --- GnomeAutostartEnabled after parse ---

GnomeKeyLines ==
    EntryKeyLines(KeyGnomeAutostart, Len(consumed) + 1)

\* C10: after a successful parse GnomeAutostartEnabled is true if the
\* [Desktop Entry] group has no X-GNOME-Autostart-enabled key, and otherwise
\* tells whether the value of the last such key of that group is "true"; the
\* key outside that group does not count.
C10_GnomeAutostartEnabled ==
    Succeeded =>
        Entry.GnomeAutostartEnabled =
            IF GnomeKeyLines = {} THEN TRUE
            ELSE LineValue(MaxOf(GnomeKeyLines)) = LitTrue

\* The group sets the key to false and then to true.
C10_Witness ==
    /\ Succeeded
    /\ Entry.GnomeAutostartEnabled
    /\ \E k \in GnomeKeyLines :
          /\ k < MaxOf(GnomeKeyLines)
          /\ LineValue(k) # LitTrue

\* --- OnlyShowIn, from the file to the autostart decision ---

\* Load has returned an entry (and a method may have been called on it).
Loaded ==
    pc \in {"done", "autostart", "expanded"} /\ result # <<>> /\ err = "nil"

OnlyShowInKeyLines ==
    EntryKeyLines(KeyOnlyShowIn, Len(consumed) + 1)

\* A value without a non-empty field: nothing but ";".
HasNoField(value) ==
    \A k \in 1..Len(value) : value[k] = ";"

\* The autostart decision with the OnlyShowIn condition left out.
ConditionsButOnlyShowIn(e, desktop) ==
    /\ ~e.Hidden
    /\ e.GnomeAutostartEnabled \/ LitGNOME \notin Elems(desktop)
    /\ e.NotShownIn.nil \/ Elems(e.NotShownIn.elems) \cap Elems(desktop) = {}

\* C11: without an OnlyShowIn key in [Desktop Entry] the loaded entry has a
\* nil OnlyShowIn, which never makes ShouldAutostart false; with an
\* OnlyShowIn key whose value has no non-empty field it has a non-nil empty
\* list, and ShouldAutostart is false for every currentDesktop.
C11_AbsentVersusEmptyOnlyShowIn ==
    Loaded =>
        /\ OnlyShowInKeyLines = {} =>
              /\ Entry.OnlyShowIn = NilList
              /\ pc = "autostart" =>
                    autostart = <<ConditionsButOnlyShowIn(Entry, currentDesktop)>>
        /\ (/\ OnlyShowInKeyLines # {}
            /\ HasNoField(LineValue(MaxOf(OnlyShowInKeyLines)))) =>
              /\ Entry.OnlyShowIn = MkList(<<>>)
              /\ pc = "autostart" => autostart = <<FALSE>>

\* The last OnlyShowIn key of the group has no field, after one that lists
\* the desktop asked about, and no other rule forbids the start.
C11_Witness ==
    /\ Loaded
    /\ pc = "autostart"
    /\ autostart = <<FALSE>>
    /\ currentDesktop = <<LitGNOME>>
    /\ Entry.NotShownIn.nil
    /\ \E k \in OnlyShowInKeyLines :
          /\ k < MaxOf(OnlyShowInKeyLines)
          /\ ListContains(splitStringList(LineValue(k)), LitGNOME)
    /\ HasNoField(LineValue(MaxOf(OnlyShowInKeyLines)))

\* --- Name, Icon and Exec of the entry and of its actions ---

\* Position of the first "=" of the trimmed line i (of a key line).
FirstEquals(i) ==
    CHOOSE p \in 1..Len(Trimmed(i)) :
        /\ Trimmed(i)[p] = "="
        /\ \A q \in 1..(p - 1) : Trimmed(i)[q] # "="

\* s without its leading white space.
WithoutLeadingSpace(s) ==
    LET n == CHOOSE n \in 0..Len(s) :
                 /\ \A q \in 1..n : s[q] \in WhiteSpace
                 /\ n = Len(s) \/ s[n + 1] \notin WhiteSpace
    IN  SubSeq(s, n + 1, Len(s))

\* s without its trailing white space.
WithoutTrailingSpace(s) ==
    LET n == CHOOSE n \in 0..Len(s) :
                 /\ \A q \in (n + 1)..Len(s) : s[q] \in WhiteSpace
                 /\ n = 0 \/ s[n] \notin WhiteSpace
    IN  SubSeq(s, 1, n)

\* The key of key line i: what precedes its first "=".
KeyAt(i) ==
    WithoutTrailingSpace(SubSeq(Trimmed(i), 1, FirstEquals(i) - 1))

\* The value of key line i: everything after its first "=", leading white
\* space removed.
ValueAt(i) ==
    WithoutLeadingSpace(SubSeq(Trimmed(i), FirstEquals(i) + 1, Len(Trimmed(i))))

\* The lines "key=..." of the [Desktop Entry] group.
KeyLinesOfEntry(key) ==
    { k \in Positions : IsKeyLine(k) /\ InEntryGroup(k) /\ KeyAt(k) = key }

\* The lines "key=..." of the group of action.
KeyLinesOfAction(action, key) ==
    { k \in Positions :
        /\ IsKeyLine(k)
        /\ InActionGroup(k)
        /\ HeaderAction(HeaderBefore(k)) = action
        /\ KeyAt(k) = key }

\* The value of the last of the lines ks, the empty string if there is none.
LastValue(ks) ==
    IF ks = {} THEN <<>> ELSE ValueAt(MaxOf(ks))

\* C12: after a successful parse Name, Icon and Exec of the entry are the
\* values of the last line with that key in [Desktop Entry], and those of
\* each action the values of the last line with that key in the action's own
\* group (empty if there is none); the value is what follows the first "=",
\* leading white space removed.
C12_ScalarFieldsHoldLastValue ==
    Succeeded =>
        /\ Entry.Name = LastValue(KeyLinesOfEntry(KeyName))
        /\ Entry.Icon = LastValue(KeyLinesOfEntry(KeyIcon))
        /\ Entry.Exec = LastValue(KeyLinesOfEntry(KeyExec))
        /\ \A a \in DOMAIN Entry.Actions.m :
              /\ Entry.Actions.m[a].Name = LastValue(KeyLinesOfAction(a, KeyName))
              /\ Entry.Actions.m[a].Icon = LastValue(KeyLinesOfAction(a, KeyIcon))
              /\ Entry.Actions.m[a].Exec = LastValue(KeyLinesOfAction(a, KeyExec))

\* An action group gives Name twice, with different values.
C12_Witness ==
    /\ Succeeded
    /\ \E a \in DOMAIN Entry.Actions.m :
          \E i, j \in KeyLinesOfAction(a, KeyName) :
              i < j /\ ValueAt(i) # ValueAt(j)

\* --- ExpandExec and ExpandActionExec ---

\* The call returned an error and no vector, without calling expandExec.
ExpandRefused ==
    execErr # "nil" /\ argv = <<>> /\ expandArgs = <<>>

\* The file has a group for the action.
HasGroupOf(action) ==
    \E i \in Positions : IsActionHeader(i) /\ HeaderAction(i) = action

\* C13: ExpandActionExec returns an error and no vector when Actions has no
\* record for the action (the map is nil, or the action is declared but has
\* no group) or the record's Exec is empty; only otherwise does it hand the
\* action's Exec and the unchanged uris to the expansion routine.
C13_ExpandActionExecGuards ==
    (pc = "expanded" /\ actionArg # <<>>) =>
        LET a == actionArg[1]
        IN  IF \/ Entry.Actions.nil
               \/ a \notin DOMAIN Entry.Actions.m
               \/ ~HasGroupOf(a)
               \/ Entry.Actions.m[a].Exec = <<>>
            THEN ExpandRefused
            ELSE expandArgs = <<[exec |-> Entry.Actions.m[a].Exec, uris |-> uris]>>

\* The action asked for has a group without an Exec line, in an entry that
\* has an Exec of its own.
C13_Witness ==
    /\ pc = "expanded"
    /\ actionArg # <<>>
    /\ HasGroupOf(actionArg[1])
    /\ Entry.Exec # <<>>
    /\ uris # <<>>
    /\ ExpandRefused

\* C14: ExpandExec returns an error and no vector for every entry whose Exec
\* is empty, so for every entry of a file without an Exec key in
\* [Desktop Entry], even when an action has an Exec.
C14_ExpandExecNeedsExec ==
    (/\ pc = "expanded"
     /\ actionArg = <<>>
     /\ Entry.Exec = <<>> \/ KeyLinesOfEntry(KeyExec) = {}) => ExpandRefused

\* The Exec key stands in an action group only.
C14_Witness ==
    /\ pc = "expanded"
    /\ actionArg = <<>>
    /\ uris # <<>>
    /\ \E a \in DOMAIN Entry.Actions.m : Entry.Actions.m[a].Exec # <<>>
    /\ ExpandRefused

\* --- splitStringList ---

\* The positions of splitValue where a maximal run of characters other than
\* ";" starts, and the position where the run that starts at i ends.
RunStarts ==
    { i \in 1..Len(splitValue) :
        splitValue[i] # ";" /\ (i = 1 \/ splitValue[i - 1] = ";") }

RunEnd(i) ==
    CHOOSE j \in i..Len(splitValue) :
        /\ \A k \in i..j : splitValue[k] # ";"
        /\ j = Len(splitValue) \/ splitValue[j + 1] = ";"

\* The start of the n-th run.
NthRunStart(n) ==
    CHOOSE i \in RunStarts : Cardinality({ h \in RunStarts : h < i }) = n - 1

\* C15: splitStringList returns the maximal runs of characters other than
\* ";" of its argument, in order, and never an empty string.
C15_SplitIsMaximalRuns ==
    pc = "splitDone" =>
        /\ Len(splitResult) = Cardinality(RunStarts)
        /\ \A n \in 1..Len(splitResult) :
              /\ splitResult[n] = SubSeq(splitValue, NthRunStart(n), RunEnd(NthRunStart(n)))
              /\ splitResult[n] # <<>>

\* Two runs with a doubled separator between them: "a;;b" and the like.
C15_Witness ==
    /\ pc = "splitDone"
    /\ Len(splitResult) = 2
    /\ \E i \in 1..(Len(splitValue) - 1) : splitValue[i] = ";" /\ splitValue[i + 1] = ";"

\* --- Outside the groups ---

\* The input has no [Desktop Entry] header, no [Desktop Action ...] header
\* and no line without "=" among those that are no header.
NoGroupOfTheEntry ==
    /\ \A i \in Positions : ~IsEntryHeader(i) /\ ~IsActionHeader(i)
    /\ ~LineWithoutEquals

\* C16: on an input without [Desktop Entry] header, without action header
\* and without a plain line lacking "=", parse succeeds and returns an entry
\* with its Filename, GnomeAutostartEnabled true and nothing else set.
C16_NoEntryGroupGivesEmptyEntry ==
    (pc = "done" /\ err # "open" /\ NoGroupOfTheEntry) =>
        /\ Succeeded
        /\ Entry.Filename = TheFilename
        /\ Entry.GnomeAutostartEnabled
        /\ Entry.Name = <<>> /\ Entry.Icon = <<>> /\ Entry.Exec = <<>>
        /\ ~Entry.Hidden
        /\ Entry.OnlyShowIn.nil /\ Entry.NotShownIn.nil
        /\ Entry.Actions.nil

\* The input sets keys of the entry after a header of another group, and
\* before any header.
C16_Witness ==
    /\ Succeeded
    /\ NoGroupOfTheEntry
    /\ \E h, i, j \in Positions :
          /\ i < h /\ h < j
          /\ IsHeaderLine(h)
          /\ IsKeyLine(i) /\ LineKey(i) = KeyGnomeAutostart
          /\ IsKeyLine(j) /\ LineKey(j) \in {KeyName, KeyHidden, KeyOnlyShowIn, KeyActions}

\* The line read last is a key/value line outside [Desktop Entry] and the
\* action groups: before the first header, or after a header of another
\* group.
KeyLineOutsideGroups ==
    /\ Len(consumed) > 0
    /\ IsKeyLine(Len(consumed))
    /\ ~InEntryGroup(Len(consumed))
    /\ ~InActionGroup(Len(consumed))

\* C19: reading a key/value line in the unknown-group state changes neither
\* the entry, nor an action record, nor the declared actions, and raises no
\* error, whatever the key.
C19_KeysOutsideGroupsIgnored ==
    [][(Len(consumed') = Len(consumed) + 1 /\ KeyLineOutsideGroups') =>
          /\ de' = de
          /\ actions' = actions
          /\ currentGroup = unknownGroup /\ currentGroup' = unknownGroup
          /\ pc' = "scan" /\ err' = "nil" /\ result' = <<>>]_vars

\* Hidden=true has just been read in another group that follows a
\* [Desktop Entry] group with declared actions.
C19_Witness ==
    /\ pc = "scan"
    /\ KeyLineOutsideGroups
    /\ LineKey(Len(consumed)) \in {KeyHidden, KeyName, KeyActions}
    /\ HeaderBefore(Len(consumed)) # 0
    /\ seenDesktopEntryGroup
    /\ ~actions.nil
    /\ ~de.Hidden

\* --- Declared actions and groups ---

\* The names that the Actions= lines of [Desktop Entry] before line i list.
ListedBefore(i, action) ==
    \E k \in EntryKeyLines(KeyActions, i) :
        ListContains(splitStringList(LineValue(k)), action)

\* C17: at every point of a parse every key of Actions is in the current
\* list of declared actions; after a successful parse every key of Actions
\* is in the list of the last Actions= line of [Desktop Entry].
C17_ActionKeysAreDeclared ==
    /\ \A a \in DOMAIN de.Actions.m : ListContains(actions.elems, a)
    /\ Succeeded =>
          \A a \in DOMAIN Entry.Actions.m :
              ListContains(DeclaredAt(Len(consumed) + 1), a)

\* [Desktop Entry] has two Actions= lines with different lists, and the
\* entry has an action.
C17_Witness ==
    /\ Succeeded
    /\ DOMAIN Entry.Actions.m # {}
    /\ \E i, j \in EntryKeyLines(KeyActions, Len(consumed) + 1) :
          i < j /\ LineValue(i) # LineValue(j)

\* C18: an action header that no earlier Actions= line of an earlier
\* [Desktop Entry] group lists, in particular one before the
\* [Desktop Entry] header, ends the parse with an error at that header:
\* whatever follows it is not read.
C18_DeclarationPrecedesUse ==
    \A i \in Positions :
        (IsActionHeader(i) /\ ~ListedBefore(i, HeaderAction(i))) =>
            (Failed /\ i = Len(consumed) /\ result = <<>>)

\* The rejected header stands before any [Desktop Entry] header.
C18_Witness ==
    /\ Failed
    /\ Len(consumed) > 1
    /\ IsActionHeader(Len(consumed))
    /\ \A h \in Positions : ~IsEntryHeader(h)
    /\ \E k \in Positions : IsKeyLine(k) /\ LineKey(k) = KeyActions

\* The parser has left [Desktop Entry]: a header has been read after it.
LeftEntryGroup ==
    LET last == HeaderBefore(Len(consumed) + 1)
    IN  \E h \in 1..(last - 1) : IsEntryHeader(h)

\* The fields of the entry itself.
OwnFields(e) ==
    <<e.Name, e.Icon, e.Exec, e.Hidden, e.OnlyShowIn, e.NotShownIn,
      e.GnomeAutostartEnabled>>

\* The action of the header read most recently, as a set: empty if there is
\* no header or the header is not one of an action.
LastHeaderAction ==
    LET h == HeaderBefore(Len(consumed) + 1)
    IN  IF h # 0 /\ IsActionHeader(h) THEN {HeaderAction(h)} ELSE {}

\* C20: once a header has been read after [Desktop Entry], no step changes
\* the fields of the entry or the declared actions or enters the entry
\* group again, and a step changes no action record but that of the action
\* whose header was read most recently.
C20_EntryFrozenAfterItsGroup ==
    [][\/ ~LeftEntryGroup
       \/ /\ OwnFields(de') = OwnFields(de)
          /\ actions' = actions
          /\ currentGroup # desktopEntryGroup /\ currentGroup' # desktopEntryGroup
          /\ \A a \in DOMAIN de.Actions.m :
                \/ /\ a \in DOMAIN de'.Actions.m
                   /\ de'.Actions.m[a] = de.Actions.m[a]
                \/ a \in LastHeaderAction']_vars

\* The entry has a Name, a first action has another Name, and a second
\* action group has been read after it.
C20_Witness ==
    /\ LeftEntryGroup
    /\ de.Name # <<>>
    /\ \E a, b \in DOMAIN de.Actions.m :
          /\ a # b
          /\ de.Actions.m[a].Name \notin {<<>>, de.Name}
          /\ b \in LastHeaderAction
====
